---- MODULE Spec2Model ----
(***************************************************************************)
(* parse-server-mailgun: the MailgunAdapter send pipeline.                 *)
(*                                                                         *)
(* The adapter is constructed once; every send runs _sendMail, whose       *)
(* synchronous part validates the options and builds the message, and      *)
(* whose asynchronous part is the generator _mailGenerator driven by co.   *)
(* One action models one handler of the event loop: the call itself (it    *)
(* runs the generator up to its first yield) and one continuation per      *)
(* yield (callback result, plain-text read, html read, MIME build), plus   *)
(* the completion of the sendMime call.  Continuations of different sends  *)
(* interleave freely; a continuation runs to the next yield atomically.    *)
(*                                                                         *)
(* Values.  JavaScript strings are TLA+ strings, `undefined` is the string *)
(* Undefined.  Plain objects (variables, extra, message) are functions     *)
(* from keys to values.  An optional object is a set: {} when it is        *)
(* missing, {obj} when it is given.  A Buffer and the text decoded from it *)
(* are sequences of units, a unit being a run of literal text, a Mustache  *)
(* tag, or a byte that is no valid UTF-8.  An Error is the sequence of the *)
(* parts of its message.                                                   *)
(***************************************************************************)
EXTENDS Integers, Sequences, FiniteSets, TLC

\* Calls made on the adapter, drawn from all the arguments below.
MaxCalls == 1

\* Sends in flight at once on one template set, drawn from ConcurrentArguments.
MaxSends == 2

\* Sends in flight at once of which the first may never be answered.
MaxLive == 2

Undefined == "undefined"

EmptyObject == [k \in {} |-> Undefined]

\* JavaScript truthiness of a string-or-undefined value.
Truthy(v) == v # Undefined /\ v # ""

\* opt || {}
OrEmpty(opt) == IF opt = {} THEN EmptyObject ELSE CHOOSE o \in opt : TRUE

\* Object.assign(target, source): the keys of both, source wins.
ObjectAssign(target, source) ==
    [k \in DOMAIN target \cup DOMAIN source |->
        IF k \in DOMAIN source THEN source[k] ELSE target[k]]

ERRORS ==
    [ missing_configuration    |-> <<"MailgunAdapter requires configuration.">>,
      missing_mailgun_settings |-> <<"MailgunAdapter requires valid API Key, domain and fromAddress.">>,
      bad_template_config      |-> <<"MailgunAdapter templates are not properly configured.">>,
      invalid_callback         |-> <<"MailgunAdapter template callback is not a function.">>,
      invalid_template_name    |-> <<"Invalid options object: missing templateName">> ]

NoError == <<>>

\* user.get on an undefined user.
UserTypeError == <<"TypeError: Cannot read property 'get' of undefined">>

(***************************************************************************)
(* The adapter as constructed: this.fromAddress, this.templates.           *)
(***************************************************************************)
AdapterFromAddress == "AwesomeApp <noreply@awesomeapp.com>"

\* The options.templates the adapter was constructed with.  callback tells
\* whether the template has a callback function.
ConfiguredTemplates ==
    [ passwordResetEmail |->
        [ subject |-> "Reset your password",
          pathPlainText |-> "password_reset_email.txt",
          pathHtml |-> "password_reset_email.html",
          callback |-> TRUE,
          extra |-> {} ],
      verificationEmail |->
        [ subject |-> "Confirm your account",
          pathPlainText |-> "verification_email.txt",
          pathHtml |-> Undefined,
          callback |-> FALSE,
          extra |-> {} ],
      customAlert |->
        [ subject |-> "Important notice about your account",
          pathPlainText |-> "password_reset_email.txt",
          pathHtml |-> "password_reset_email.html",
          callback |-> FALSE,
          extra |-> {[replyTo |-> "reply@test.com"]} ] ]

TemplateNames == DOMAIN ConfiguredTemplates

\* this.templates and this.cache are plain objects: obj[name] also finds the
\* properties they inherit from Object.prototype, of which constructor stands
\* for all.
ObjectPrototype == {"constructor"}

\* Object.prototype.constructor read as a template: a function, truthy, on
\* which subject, pathPlainText, pathHtml, callback and extra are undefined.
InheritedTemplate ==
    [ subject |-> Undefined, pathPlainText |-> Undefined, pathHtml |-> Undefined,
      callback |-> FALSE, extra |-> {} ]

\* The names this.cache[name] can be read and written at.
CacheKeys == TemplateNames \cup ObjectPrototype

(***************************************************************************)
(* The constructor.  A value of a template's property carries its typeof;  *)
(* value is the string itself, or names the value of another type.         *)
(***************************************************************************)
Str(v) == [typeof |-> "string", value |-> v]
Num(v) == [typeof |-> "number", value |-> v]
Undef == [typeof |-> "undefined", value |-> Undefined]
Null == [typeof |-> "object", value |-> "null"]
Fn == [typeof |-> "function", value |-> "function"]
Obj == [typeof |-> "object", value |-> "object"]

\* !v is false.
ToBoolean(v) ==
    /\ v.typeof # "undefined"
    /\ v # Null
    /\ v # Str("")
    /\ v # Num("0")

\* The property names of options.templates, in the order they were added.
ConfigurableNames == <<"passwordResetEmail", "verificationEmail", "customAlert">>

\* The options the adapter above was constructed with.
ConfiguredOptions ==
    [ apiKey |-> "secretApiKey", domain |-> "yourdomain.com", fromAddress |-> AdapterFromAddress,
      templates |->
        [ value |-> Obj,
          entries |->
            << [ subject |-> Str("Reset your password"),
                 pathPlainText |-> Str("password_reset_email.txt"),
                 pathHtml |-> Str("password_reset_email.html"),
                 callback |-> Fn,
                 extra |-> {} ],
               [ subject |-> Str("Confirm your account"),
                 pathPlainText |-> Str("verification_email.txt"),
                 pathHtml |-> Undef,
                 callback |-> Undef,
                 extra |-> {} ],
               [ subject |-> Str("Important notice about your account"),
                 pathPlainText |-> Str("password_reset_email.txt"),
                 pathHtml |-> Str("password_reset_email.html"),
                 callback |-> Undef,
                 extra |-> {[replyTo |-> "reply@test.com"]} ] >> ] ]

\* SettingsMissing that does not look at the domain.
SettingsMissingIgnoresDomain(o) == ~Truthy(o.apiKey) \/ ~Truthy(o.fromAddress)

\* !apiKey || !domain || !fromAddress, line 30.
SettingsMissing(o) == ~Truthy(o.apiKey) \/ ~Truthy(o.domain) \/ ~Truthy(o.fromAddress)

\* TemplatesMissing that accepts an object without templates.
TemplatesMissingAcceptsEmpty(t) == ~ToBoolean(t.value)

\* !templates || Object.keys(templates).length === 0, line 35.
TemplatesMissing(t) == ~ToBoolean(t.value) \/ Len(t.entries) = 0

\* One turn of the loop over the templates, lines 40-48: the error it throws.
TemplateError(template) ==
    IF template.subject.typeof # "string" \/ template.pathPlainText.typeof # "string"
    THEN ERRORS.bad_template_config
    ELSE IF ToBoolean(template.callback) /\ template.callback.typeof # "function"
         THEN ERRORS.invalid_callback
         ELSE NoError

\* for (let name in templates), lines 39-49: the error of the first turn that throws.
RECURSIVE TemplatesError(_)
TemplatesError(entries) ==
    IF entries = <<>> THEN NoError
    ELSE IF TemplateError(Head(entries)) # NoError THEN TemplateError(Head(entries))
         ELSE TemplatesError(Tail(entries))

\* new MailgunAdapter(options), lines 22-49: the error it throws, options
\* being {} when no options are given.
ConstructorThrows(options) ==
    IF options = {} THEN ERRORS.missing_configuration
    ELSE LET o == CHOOSE given \in options : TRUE IN
         IF SettingsMissing(o) THEN ERRORS.missing_mailgun_settings
         ELSE IF TemplatesMissing(o.templates) THEN ERRORS.bad_template_config
              ELSE TemplatesError(o.templates.entries)

\* this.templates = templates, line 54, as the sends read it.
AdoptedTemplates(t) ==
    [ name \in { ConfigurableNames[i] : i \in DOMAIN t.entries } |->
        LET template == t.entries[CHOOSE i \in DOMAIN t.entries : ConfigurableNames[i] = name] IN
        [ subject |-> template.subject.value,
          pathPlainText |-> template.pathPlainText.value,
          pathHtml |-> template.pathHtml.value,
          callback |-> ToBoolean(template.callback) /\ template.callback.typeof = "function",
          extra |-> template.extra ] ]

(***************************************************************************)
(* Template files.  A file's bytes do not change while the adapter lives.  *)
(***************************************************************************)
InvalidByte == "\\xFF"
ReplacementChar == "\\uFFFD"

Paths == {"password_reset_email.txt", "password_reset_email.html", "verification_email.txt"}

FileSystems ==
    { [ p \in Paths |->
          CASE p = "password_reset_email.txt"  -> txt
            [] p = "password_reset_email.html" -> <<"<b>", "{{appName}}", "</b>", InvalidByte>>
            [] OTHER -> <<"Confirm: ", "{{{link}}}">> ]
      : txt \in { <<"Hello ", "{{username}}">>, <<>> } }

\* Buffer.toString('utf8'): bytes that are no valid UTF-8 become U+FFFD.
ToStringUtf8(buffer) ==
    [i \in DOMAIN buffer |-> IF buffer[i] = InvalidByte THEN ReplacementChar ELSE buffer[i]]

(***************************************************************************)
(* Mustache.render, as far as the templates above use it: {{key}} is the   *)
(* HTML-escaped value, {{{key}}} the raw value, a missing or undefined     *)
(* value renders as the empty string.                                      *)
(***************************************************************************)
Tags ==
    [ t \in {"{{username}}", "{{appName}}", "{{{link}}}"} |->
        CASE t = "{{username}}" -> [key |-> "username", escape |-> TRUE]
          [] t = "{{appName}}"  -> [key |-> "appName",  escape |-> TRUE]
          [] OTHER              -> [key |-> "link",     escape |-> FALSE] ]

EscapeHtml(v) == IF v = "A&B" THEN "A&amp;B" ELSE v

Lookup(view, key) ==
    IF key \in DOMAIN view /\ view[key] # Undefined THEN view[key] ELSE ""

MustacheRender(template, view) ==
    [i \in DOMAIN template |->
        IF template[i] \in DOMAIN Tags
        THEN IF Tags[template[i]].escape
             THEN EscapeHtml(Lookup(view, Tags[template[i]].key))
             ELSE Lookup(view, Tags[template[i]].key)
        ELSE template[i]]

(***************************************************************************)
(* State.                                                                  *)
(*   templates, cache        this.templates, this.cache                    *)
(*   files                   the template files on disk                    *)
(*   opts[s]                 the options object _sendMail was called with  *)
(*   pc[s]                   where send s is: "idle" before the call, the  *)
(*                           yield its generator is suspended at, "done"   *)
(*   templateVars[s], message[s]   the generator's args of send s          *)
(*   result[s]               what the call gave its caller: an exception,  *)
(*                           or the promise and its state                  *)
(*   logged[s]               the errors console.error received from s     *)
(*   trace[s]                the stages send s has run, in order           *)
(*   composerCalls[s]        the messages handed to this.mailcomposer      *)
(*   sendMimeCalls[s]        the payloads handed to sendMime               *)
(*   completions[s]          what the outside world answered to send s     *)
(*   calls[s]                the method call s was and its arguments       *)
(*   options                 what new MailgunAdapter was called with       *)
(*   construction            whether it returned or threw, and what        *)
(***************************************************************************)
VARIABLES templates, cache, files, opts, pc, templateVars, message, result,
          logged, trace, composerCalls, sendMimeCalls, completions, calls,
          options, construction

vars == <<templates, cache, files, opts, pc, templateVars, message, result,
          logged, trace, composerCalls, sendMimeCalls, completions, calls,
          options, construction>>

\* this.templates[templateName], line 71.
TemplateAt(name) ==
    IF name \in DOMAIN templates THEN templates[name] ELSE InheritedTemplate

\* !template is false, line 72.
Found(name) == name \in DOMAIN templates \cup ObjectPrototype

\* A field of a cache entry: cachedTemplate['text'] is undefined or a string.
NoBody == [set |-> FALSE, body |-> <<>>]
Body(b) == [set |-> TRUE, body |-> b]

\* Cached that takes any string the field holds, the empty one too.
CachedWhenSet(field) == field.set

\* !cachedTemplate[kind] is false: the field holds a non-empty string.
Cached(field) == field.set /\ field.body # <<>>

\* this.cache[name] before any send of that name, and the {} line 130 stores.
NoEntry == [created |-> FALSE, text |-> NoBody, html |-> NoBody]

NoOpts ==
    [ direct |-> FALSE, templateName |-> Undefined, subject |-> Undefined,
      fromAddress |-> Undefined, recipient |-> Undefined, variables |-> {},
      extra |-> {}, link |-> Undefined, appName |-> Undefined, user |-> {} ]

\* The promise a call returns, or the exception it throws instead.
NoResult == [state |-> "none",     error |-> NoError, body |-> Undefined]
Thrown(e) == [state |-> "thrown",   error |-> e,       body |-> Undefined]
Pending == [state |-> "pending",  error |-> NoError, body |-> Undefined]
Resolved(b) == [state |-> "resolved", error |-> NoError, body |-> b]
Rejected(e) == [state |-> "rejected", error |-> e,       body |-> Undefined]

\* new MailgunAdapter(options): not called yet, returned, threw e.
NotConstructed == [state |-> "none", error |-> NoError]
Constructed == [state |-> "returned", error |-> NoError]
ConstructorThrew(e) == [state |-> "thrown", error |-> e]

\* No method was called yet.
NoCall == [method |-> "none", arguments |-> Undefined]

\* The adapter after construction, about to receive the calls SendIds.
InitOn(SendIds) ==
    /\ templates = ConfiguredTemplates
    /\ cache = [t \in CacheKeys |-> NoEntry]
    /\ files \in FileSystems
    /\ opts = [s \in SendIds |-> NoOpts]
    /\ pc = [s \in SendIds |-> "idle"]
    /\ templateVars = [s \in SendIds |-> EmptyObject]
    /\ message = [s \in SendIds |-> EmptyObject]
    /\ result = [s \in SendIds |-> NoResult]
    /\ logged = [s \in SendIds |-> <<>>]
    /\ trace = [s \in SendIds |-> <<>>]
    /\ composerCalls = [s \in SendIds |-> <<>>]
    /\ sendMimeCalls = [s \in SendIds |-> <<>>]
    /\ completions = [s \in SendIds |-> <<>>]
    /\ calls = [s \in SendIds |-> NoCall]
    /\ options = {ConfiguredOptions}
    /\ construction = Constructed

Init == InitOn(1..MaxCalls)

InitConcurrent == InitOn(1..MaxSends)

Sends == DOMAIN pc

(***************************************************************************)
(* _mailGenerator, from one yield to the next.  A context c holds what the *)
(* generator of one send reads and writes: pc, vars (templateVars), msg    *)
(* (message), trace, entry (cachedTemplate, the object this.cache holds    *)
(* for the send's template), composed and sent (the calls of the composer  *)
(* and of sendMime) and outcome (the promise co returns for the           *)
(* generator).                                                             *)
(***************************************************************************)

\* One statement after the other: Only({ F(r) : r \in {v} }) is F of the
\* context v the statements before it left, v being evaluated once.
Only(S) == CHOOSE next \in S : TRUE

\* ComposeStage with the composer created before the template's extra is merged.
ComposeBeforeExtras(t, c) ==
    [c EXCEPT !.msg = ObjectAssign(c.msg, OrEmpty(TemplateAt(t).extra)),
              !.trace = @ \o <<"compose", "extras">>,
              !.composed = Append(@, c.msg),
              !.pc = "compose"]

\* Lines 152-164: merge the template's extra, create the composer, build.
ComposeStage(t, c) ==
    LET m == ObjectAssign(c.msg, OrEmpty(TemplateAt(t).extra)) IN
    [c EXCEPT !.msg = m,
              !.trace = @ \o <<"extras", "compose">>,
              !.composed = Append(@, m),
              !.pc = "compose"]

\* Line 149.
RenderHtml(c) ==
    [c EXCEPT !.msg = ObjectAssign(@, [html |-> MustacheRender(c.entry.html.body, c.vars)]),
              !.trace = Append(@, "htmlRender")]

\* HtmlStage that never adds an html version.
HtmlStageWithoutHtml(t, c) == ComposeStage(t, c)

\* HtmlStage reading the text file where it should read the html file.
HtmlStageReadsTextAgain(t, c) ==
    IF Truthy(TemplateAt(t).pathHtml)
    THEN IF ~Cached(c.entry.html)
         THEN [c EXCEPT !.pc = "textLoad", !.trace = Append(@, "textLoad")]
         ELSE Only({ ComposeStage(t, r) : r \in {RenderHtml(c)} })
    ELSE ComposeStage(t, c)

\* Lines 142-150: the html version, when the template has one.
HtmlStage(t, c) ==
    IF Truthy(TemplateAt(t).pathHtml)
    THEN IF ~Cached(c.entry.html)
         THEN [c EXCEPT !.pc = "htmlLoad", !.trace = Append(@, "htmlLoad")]
         ELSE Only({ ComposeStage(t, r) : r \in {RenderHtml(c)} })
    ELSE ComposeStage(t, c)

\* Line 140.
RenderText(c) ==
    [c EXCEPT !.msg = ObjectAssign(@, [text |-> MustacheRender(c.entry.text.body, c.vars)]),
              !.trace = Append(@, "textRender")]

\* Lines 127-140: the cache entry of the template, and its plain-text version.
TextStage(t, c) ==
    Only({ IF ~Cached(d.entry.text)
           THEN [d EXCEPT !.pc = "textLoad", !.trace = Append(@, "textLoad")]
           ELSE Only({ HtmlStage(t, r) : r \in {RenderText(d)} })
           : d \in {[c EXCEPT !.entry.created = TRUE]} })

\* MailGenerator creating the cache entry before it calls the callback.
MailGeneratorCreatesEntryFirst(t, c) ==
    IF TemplateAt(t).callback
    THEN [c EXCEPT !.pc = "callback", !.trace = Append(@, "callback"), !.entry.created = TRUE]
    ELSE TextStage(t, c)

\* Lines 116-125, up to the first yield: the callback is called when the
\* template has one, whatever the mode of the send.
MailGenerator(t, c) ==
    IF TemplateAt(t).callback
    THEN [c EXCEPT !.pc = "callback", !.trace = Append(@, "callback")]
    ELSE TextStage(t, c)

\* _validateUserVars returning whatever own properties the value has.
ValidateUserVarsAcceptsAll(userVars) == userVars.props

\* Lines 235-239.  A JavaScript value v is [truthy, constructor, props].
ValidateUserVars(userVars) ==
    IF userVars.truthy /\ userVars.constructor = "Object"
    THEN userVars.props
    ELSE EmptyObject

\* A promise the generator yielded was rejected, or the callback threw: co
\* throws the error into the generator, which does not catch it.
GeneratorThrows(c, e) == [c EXCEPT !.pc = "done", !.outcome = Rejected(e)]

\* What the outside world answers: [ok, error, data].
Failure(e) == [ok |-> FALSE, error |-> e, data |-> <<>>]
Success(d) == [ok |-> TRUE, error |-> NoError, data |-> d]

\* OnCallback with the callback's variables under the send's, not over them.
OnCallbackBaseWins(t, c, answer) ==
    IF ~answer.ok
    THEN GeneratorThrows(c, answer.error)
    ELSE Only({ TextStage(t, d) :
                d \in {[c EXCEPT !.vars = ObjectAssign(ValidateUserVars(answer.data), @)]} })

\* Lines 122-125, after the yield of line 122.
OnCallback(t, c, answer) ==
    IF ~answer.ok
    THEN GeneratorThrows(c, answer.error)
    ELSE Only({ TextStage(t, d) :
                d \in {[c EXCEPT !.vars = ObjectAssign(@, ValidateUserVars(answer.data))]} })

\* OnTextLoaded caching an empty body when the read failed.
OnTextLoadedCachesFailure(t, c, answer) ==
    IF ~answer.ok
    THEN GeneratorThrows([c EXCEPT !.entry.text = Body(<<>>)], answer.error)
    ELSE Only({ HtmlStage(t, r) :
                r \in {RenderText([c EXCEPT !.entry.text = Body(ToStringUtf8(answer.data))])} })

\* OnTextLoaded storing a fresh entry {text: ...} in place of the shared one.
OnTextLoadedReplacesEntry(t, c, answer) ==
    IF ~answer.ok
    THEN GeneratorThrows(c, answer.error)
    ELSE Only({ HtmlStage(t, r) : r \in {RenderText([c EXCEPT !.entry =
                [created |-> TRUE, text |-> Body(ToStringUtf8(answer.data)), html |-> NoBody]])} })

\* Lines 134-136, after the yield of line 134.
OnTextLoaded(t, c, answer) ==
    IF ~answer.ok
    THEN GeneratorThrows(c, answer.error)
    ELSE Only({ HtmlStage(t, r) :
                r \in {RenderText([c EXCEPT !.entry.text = Body(ToStringUtf8(answer.data))])} })

\* OnHtmlLoaded caching the Buffer as read, without toString('utf8').
OnHtmlLoadedStoresBuffer(t, c, answer) ==
    IF ~answer.ok
    THEN GeneratorThrows(c, answer.error)
    ELSE Only({ ComposeStage(t, r) :
                r \in {RenderHtml([c EXCEPT !.entry.html = Body(answer.data)])} })

\* Lines 145-146, after the yield of line 145.
OnHtmlLoaded(t, c, answer) ==
    IF ~answer.ok
    THEN GeneratorThrows(c, answer.error)
    ELSE Only({ ComposeStage(t, r) :
                r \in {RenderHtml([c EXCEPT !.entry.html = Body(ToStringUtf8(answer.data))])} })

\* OnBuilt going on to sendMime although the build failed.
OnBuiltIgnoresError(t, c, answer) ==
    [c EXCEPT !.sent = Append(@, [to |-> c.msg["to"], message |-> answer.data]),
              !.trace = Append(@, "dispatch"),
              !.pc = "deliver"]

\* OnBuilt that hands the payload to sendMime and is never resumed.
OnBuiltLosesContinuation(t, c, answer) ==
    IF ~answer.ok
    THEN GeneratorThrows(c, answer.error)
    ELSE [c EXCEPT !.sent = Append(@, [to |-> c.msg["to"], message |-> answer.data]),
                   !.trace = Append(@, "dispatch"),
                   !.pc = "lost"]

\* OnBuilt with the message's sender as the payload's recipient.
OnBuiltSendsToSender(t, c, answer) ==
    IF ~answer.ok
    THEN GeneratorThrows(c, answer.error)
    ELSE [c EXCEPT !.sent = Append(@, [to |-> c.msg["from"], message |-> answer.data]),
                   !.trace = Append(@, "dispatch"),
                   !.pc = "deliver"]

\* Lines 166-177, after the yield of line 159: the payload goes to sendMime
\* and the generator returns the promise of its answer.
OnBuilt(t, c, answer) ==
    IF ~answer.ok
    THEN GeneratorThrows(c, answer.error)
    ELSE [c EXCEPT !.sent = Append(@, [to |-> c.msg["to"], message |-> answer.data]),
                   !.trace = Append(@, "dispatch"),
                   !.pc = "deliver"]

\* OnSent resolving without the body.
OnSentDropsBody(t, c, answer) ==
    IF ~answer.ok
    THEN GeneratorThrows(c, answer.error)
    ELSE [c EXCEPT !.pc = "done", !.outcome = Resolved(Undefined)]

\* Lines 173-176: the callback of sendMime settles the returned promise.
OnSent(t, c, answer) ==
    IF ~answer.ok
    THEN GeneratorThrows(c, answer.error)
    ELSE [c EXCEPT !.pc = "done", !.outcome = Resolved(answer.data)]

\* Catch logging the error and throwing it again.
CatchRethrows(outcome) ==
    IF outcome.state = "rejected"
    THEN [promise |-> outcome, errors |-> <<outcome.error>>]
    ELSE [promise |-> outcome, errors |-> <<>>]

\* No catch at all: the promise of co is returned as it is.
NoCatch(outcome) == [promise |-> outcome, errors |-> <<>>]

\* Catch swallowing the error without logging it.
CatchSilently(outcome) ==
    IF outcome.state = "rejected"
    THEN [promise |-> Resolved(Undefined), errors |-> <<>>]
    ELSE [promise |-> outcome, errors |-> <<>>]

\* Line 109: co(...).catch(e => console.error(e)).  The promise _sendMail
\* returns follows the generator's, but a rejection is logged and becomes a
\* promise resolved with undefined.
Catch(outcome) ==
    IF outcome.state = "rejected"
    THEN [promise |-> Resolved(Undefined), errors |-> <<outcome.error>>]
    ELSE [promise |-> outcome, errors |-> <<>>]

(***************************************************************************)
(* _sendMail, lines 63-108.                                                *)
(***************************************************************************)

\* SendMailThrows with a recipient check that lets the empty string pass.
SendMailThrowsAcceptsEmptyRecipient(o) ==
    IF ~Truthy(o.templateName)
    THEN ERRORS.invalid_template_name
    ELSE IF ~Found(o.templateName)
    THEN <<"Could not find template with name ", o.templateName>>
    ELSE IF o.direct
    THEN IF o.recipient = Undefined
         THEN <<"Cannot send email with template ", o.templateName, " without a recipient">>
         ELSE NoError
    ELSE IF o.user = {} THEN UserTypeError ELSE NoError

\* The exception the synchronous part throws, NoError when it throws none.
SendMailThrows(o) ==
    IF ~Truthy(o.templateName)
    THEN ERRORS.invalid_template_name
    ELSE IF ~Found(o.templateName)
    THEN <<"Could not find template with name ", o.templateName>>
    ELSE IF o.direct
    THEN IF ~Truthy(o.recipient)
         THEN <<"Cannot send email with template ", o.templateName, " without a recipient">>
         ELSE NoError
    ELSE IF o.user = {} THEN UserTypeError ELSE NoError

\* user.get(field)
UserGet(o, field) == (CHOOSE u \in o.user : TRUE)[field]

\* InitialTemplateVars with the user's email as username.
InitialTemplateVarsUsernameIsEmail(o) ==
    IF o.direct
    THEN OrEmpty(o.variables)
    ELSE [ link |-> o.link, appName |-> o.appName,
           username |-> UserGet(o, "email"), email |-> UserGet(o, "email") ]

\* Lines 84 and 94-99.
InitialTemplateVars(o) ==
    IF o.direct
    THEN OrEmpty(o.variables)
    ELSE [ link |-> o.link, appName |-> o.appName,
           username |-> UserGet(o, "username"), email |-> UserGet(o, "email") ]

\* InitialMessage with the template's subject whatever the caller's.
InitialMessageTemplateSubject(o) ==
    IF o.direct
    THEN ObjectAssign(
            [ from |-> IF Truthy(o.fromAddress) THEN o.fromAddress ELSE AdapterFromAddress,
              to |-> o.recipient,
              subject |-> TemplateAt(o.templateName).subject ],
            OrEmpty(o.extra))
    ELSE [ from |-> AdapterFromAddress,
           to |-> UserGet(o, "email"),
           subject |-> TemplateAt(o.templateName).subject ]

\* Lines 85-89 and 101-105.
InitialMessage(o) ==
    IF o.direct
    THEN ObjectAssign(
            [ from |-> IF Truthy(o.fromAddress) THEN o.fromAddress ELSE AdapterFromAddress,
              to |-> o.recipient,
              subject |-> IF Truthy(o.subject) THEN o.subject
                          ELSE TemplateAt(o.templateName).subject ],
            OrEmpty(o.extra))
    ELSE [ from |-> AdapterFromAddress,
           to |-> UserGet(o, "email"),
           subject |-> TemplateAt(o.templateName).subject ]

\* Context with one templateVars for all sends, that of the first call.
ContextSharesVariables(s) ==
    [ pc |-> pc[s], vars |-> templateVars[1], msg |-> message[s], trace |-> trace[s],
      entry |-> cache[opts[s].templateName], composed |-> composerCalls[s],
      sent |-> sendMimeCalls[s], outcome |-> result[s] ]

\* The context of send s, as the state holds it.
Context(s) ==
    [ pc |-> pc[s], vars |-> templateVars[s], msg |-> message[s], trace |-> trace[s],
      entry |-> cache[opts[s].templateName], composed |-> composerCalls[s],
      sent |-> sendMimeCalls[s], outcome |-> result[s] ]

\* Store emptying the cache entries of the other templates.
StoreResetsOtherEntries(s, t, c) ==
    /\ pc' = [pc EXCEPT ![s] = c.pc]
    /\ templateVars' = [templateVars EXCEPT ![s] = c.vars]
    /\ message' = [message EXCEPT ![s] = c.msg]
    /\ trace' = [trace EXCEPT ![s] = c.trace]
    /\ cache' = [name \in DOMAIN cache |-> IF name = t THEN c.entry ELSE NoEntry]
    /\ composerCalls' = [composerCalls EXCEPT ![s] = c.composed]
    /\ sendMimeCalls' = [sendMimeCalls EXCEPT ![s] = c.sent]
    /\ result' = [result EXCEPT ![s] = Catch(c.outcome).promise]
    /\ logged' = [logged EXCEPT ![s] = @ \o Catch(c.outcome).errors]

\* The state after the generator of send s, for template t, has run to c.
Store(s, t, c) ==
    /\ pc' = [pc EXCEPT ![s] = c.pc]
    /\ templateVars' = [templateVars EXCEPT ![s] = c.vars]
    /\ message' = [message EXCEPT ![s] = c.msg]
    /\ trace' = [trace EXCEPT ![s] = c.trace]
    /\ cache' = [cache EXCEPT ![t] = c.entry]
    /\ composerCalls' = [composerCalls EXCEPT ![s] = c.composed]
    /\ sendMimeCalls' = [sendMimeCalls EXCEPT ![s] = c.sent]
    /\ result' = [result EXCEPT ![s] = Catch(c.outcome).promise]
    /\ logged' = [logged EXCEPT ![s] = @ \o Catch(c.outcome).errors]

\* SendMail logging the error it throws.
SendMailLogsWhatItThrows(s, o) ==
    /\ pc[s] = "idle"
    /\ \A r \in Sends : r < s => pc[r] # "idle"
    /\ opts' = [opts EXCEPT ![s] = o]
    /\ IF SendMailThrows(o) # NoError
       THEN /\ pc' = [pc EXCEPT ![s] = "done"]
            /\ result' = [result EXCEPT ![s] = Thrown(SendMailThrows(o))]
            /\ logged' = [logged EXCEPT ![s] = <<SendMailThrows(o)>>]
            /\ UNCHANGED <<cache, templateVars, message, trace,
                           composerCalls, sendMimeCalls>>
       ELSE \E started \in
                 { MailGenerator(o.templateName,
                     [ pc |-> "idle", vars |-> InitialTemplateVars(o),
                       msg |-> InitialMessage(o), trace |-> <<>>,
                       entry |-> cache[o.templateName], composed |-> <<>>,
                       sent |-> <<>>, outcome |-> Pending ]) } :
               Store(s, o.templateName, started)
    /\ UNCHANGED <<templates, files, completions, options, construction>>

\* _sendMail(o) as call number s on the adapter.
SendMail(s, o) ==
    /\ pc[s] = "idle"
    /\ \A r \in Sends : r < s => pc[r] # "idle"
    /\ opts' = [opts EXCEPT ![s] = o]
    /\ IF SendMailThrows(o) # NoError
       THEN /\ pc' = [pc EXCEPT ![s] = "done"]
            /\ result' = [result EXCEPT ![s] = Thrown(SendMailThrows(o))]
            /\ UNCHANGED <<cache, templateVars, message, logged, trace,
                           composerCalls, sendMimeCalls>>
       ELSE \E started \in
                 { MailGenerator(o.templateName,
                     [ pc |-> "idle", vars |-> InitialTemplateVars(o),
                       msg |-> InitialMessage(o), trace |-> <<>>,
                       entry |-> cache[o.templateName], composed |-> <<>>,
                       sent |-> <<>>, outcome |-> Pending ]) } :
               Store(s, o.templateName, started)
    /\ UNCHANGED <<templates, files, completions, options, construction>>

(***************************************************************************)
(* What callers pass and what the outside world answers.                   *)
(***************************************************************************)
Alice == [username |-> "alice", email |-> "a@b.com"]

\* The optional fields of a direct send: none of them, or all of them.
DirectOptionals ==
    { [ subject |-> Undefined, fromAddress |-> Undefined, variables |-> {}, extra |-> {} ],
      [ subject |-> "Important: action required",
        fromAddress |-> "Alerts <noreply@yourapp.com>",
        variables |-> {[username |-> "bob", alert |-> "New posts"]},
        extra |-> {[replyTo |-> "reply-to-address", cc |-> "cc@x.com"]} ] }

SendArguments ==
    { [ templateName |-> n, recipient |-> r, subject |-> d.subject,
        fromAddress |-> d.fromAddress, variables |-> d.variables, extra |-> d.extra ]
      : n \in {Undefined, "foo", "constructor", "customAlert", "passwordResetEmail"},
        r \in {Undefined, "", "user@email.com"},
        d \in DirectOptionals }

IdentityArguments ==
    { [ link |-> "https://foo.com", appName |-> "A&B", user |-> u ] : u \in { {}, {Alice} } }

\* The options of the tests of #_sendMail without direct: none, a name that
\* is no template, and the latter for a user.
SendMailOptions ==
    { [NoOpts EXCEPT !.templateName = n, !.link = a.link, !.appName = a.appName,
                     !.user = a.user]
      : n \in {Undefined, "foo", "constructor"}, a \in IdentityArguments }

\* What a template's callback answers: the value it returns, directly or
\* through a promise, or the error it throws or rejects with.
\* The JavaScript value undefined.
JsUndefined == [truthy |-> FALSE, constructor |-> "Undefined", props |-> EmptyObject]

\* props are the own enumerable properties Object.assign would copy: the
\* keys of an object, the indices of a string or an array.
JsValues ==
    { [truthy |-> TRUE,  constructor |-> "Object",
       props |-> [appName |-> "X", username |-> "zed", firstName |-> "Al"]],
      [truthy |-> TRUE,  constructor |-> "String", props |-> ("0" :> "f")],
      [truthy |-> TRUE,  constructor |-> "Array",  props |-> ("0" :> "zed")],
      [truthy |-> TRUE,  constructor |-> "Number", props |-> EmptyObject],
      [truthy |-> FALSE, constructor |-> "Null", props |-> EmptyObject],
      JsUndefined }

CallbackAnswers == { Success(v) : v \in JsValues } \cup { Failure(<<"callback failed">>) }

\* fs.readFile: the bytes of the file or an error; a path that is no string
\* makes readFile throw inside the promise, which rejects it.
ReadAnswers(path) ==
    IF path \in DOMAIN files
    THEN { Success(files[path]), Failure(<<"ENOENT: no such file ", path>>) }
    ELSE { Failure(<<"TypeError: path must be a string">>) }

\* The MIME document mailcomposer builds from a message.
MimeOf(m) == [version |-> "MIME-Version: 1.0", of |-> m]

BuildAnswers(m) == { Success(MimeOf(m)), Failure(<<"Composing message failed">>) }

ResponseBodies == {"Queued. Thank you.", "Queued."}

SendMimeAnswers == { Success(b) : b \in ResponseBodies } \cup { Failure(<<"Forbidden">>) }

(***************************************************************************)
(* The entry points, lines 186-214.                                        *)
(***************************************************************************)
Called(s, method, a) ==
    calls' = [calls EXCEPT ![s] = [method |-> method, arguments |-> a]]

SendPasswordResetEmail(s, arguments) ==
    \E a \in arguments :
        /\ SendMail(s, [NoOpts EXCEPT !.templateName = "passwordResetEmail",
                                      !.link = a.link, !.appName = a.appName,
                                      !.user = a.user])
        /\ Called(s, "sendPasswordResetEmail", a)

\* sendVerificationEmail with the template name of sendPasswordResetEmail.
SendVerificationEmailAsPasswordReset(s, arguments) ==
    \E a \in arguments :
        /\ SendMail(s, [NoOpts EXCEPT !.templateName = "passwordResetEmail",
                                      !.link = a.link, !.appName = a.appName,
                                      !.user = a.user])
        /\ Called(s, "sendVerificationEmail", a)

SendVerificationEmail(s, arguments) ==
    \E a \in arguments :
        /\ SendMail(s, [NoOpts EXCEPT !.templateName = "verificationEmail",
                                      !.link = a.link, !.appName = a.appName,
                                      !.user = a.user])
        /\ Called(s, "sendVerificationEmail", a)

Send(s, arguments) ==
    \E a \in arguments :
        /\ SendMail(s, [NoOpts EXCEPT !.templateName = a.templateName,
                                      !.subject = a.subject,
                                      !.fromAddress = a.fromAddress,
                                      !.recipient = a.recipient,
                                      !.variables = a.variables, !.extra = a.extra,
                                      !.direct = TRUE])
        /\ Called(s, "send", a)

\* _sendMail called on the adapter itself, as the tests of #_sendMail do.
InvokeSendMail(s, arguments) ==
    \E o \in arguments : SendMail(s, o) /\ Called(s, "_sendMail", o)

(***************************************************************************)
(* The continuations: the outside world answers, co resumes the generator. *)
(***************************************************************************)
Resume(s, c, answer) ==
    /\ \E resumed \in {c} : Store(s, opts[s].templateName, resumed)
    /\ completions' = [completions EXCEPT ![s] =
            Append(@, [ stage |-> pc[s], ok |-> answer.ok, error |-> answer.error,
                        body |-> IF pc[s] = "deliver" /\ answer.ok
                                 THEN answer.data ELSE Undefined,
                        value |-> IF pc[s] = "callback" /\ answer.ok
                                  THEN answer.data ELSE JsUndefined ])]
    /\ UNCHANGED <<templates, files, opts, calls, options, construction>>

CallbackDone(s, answers) ==
    /\ pc[s] = "callback"
    /\ \E answer \in answers :
          Resume(s, OnCallback(opts[s].templateName, Context(s), answer), answer)

TextLoaded(s) ==
    /\ pc[s] = "textLoad"
    /\ \E answer \in ReadAnswers(TemplateAt(opts[s].templateName).pathPlainText) :
          Resume(s, OnTextLoaded(opts[s].templateName, Context(s), answer), answer)

HtmlLoaded(s) ==
    /\ pc[s] = "htmlLoad"
    /\ \E answer \in ReadAnswers(TemplateAt(opts[s].templateName).pathHtml) :
          Resume(s, OnHtmlLoaded(opts[s].templateName, Context(s), answer), answer)

Built(s) ==
    /\ pc[s] = "compose"
    /\ \E answer \in BuildAnswers(message[s]) :
          Resume(s, OnBuilt(opts[s].templateName, Context(s), answer), answer)

Sent(s) ==
    /\ pc[s] = "deliver"
    /\ \E answer \in SendMimeAnswers :
          Resume(s, OnSent(opts[s].templateName, Context(s), answer), answer)

Next ==
    \E s \in 1..MaxCalls :
        \/ SendPasswordResetEmail(s, IdentityArguments)
        \/ SendVerificationEmail(s, IdentityArguments)
        \/ Send(s, SendArguments)
        \/ InvokeSendMail(s, SendMailOptions)
        \/ CallbackDone(s, CallbackAnswers)
        \/ TextLoaded(s)
        \/ HtmlLoaded(s)
        \/ Built(s)
        \/ Sent(s)

Spec == Init /\ [][Next]_vars

\* Several sends in flight: the valid calls among the arguments above.
ConcurrentSendArguments ==
    { a \in SendArguments : a.templateName = "customAlert" /\ Truthy(a.recipient) }

ConcurrentIdentityArguments == { a \in IdentityArguments : a.user # {} }

\* A callback that returns an object, one that returns nothing, one that fails.
ConcurrentCallbackAnswers ==
    { a \in CallbackAnswers : a.ok => a.data.constructor \in {"Object", "Undefined"} }

NextConcurrent ==
    \E s \in 1..MaxSends :
        \/ SendPasswordResetEmail(s, ConcurrentIdentityArguments)
        \/ SendVerificationEmail(s, ConcurrentIdentityArguments)
        \/ Send(s, ConcurrentSendArguments)
        \/ CallbackDone(s, ConcurrentCallbackAnswers)
        \/ TextLoaded(s)
        \/ HtmlLoaded(s)
        \/ Built(s)
        \/ Sent(s)

SpecConcurrent == InitConcurrent /\ [][NextConcurrent]_vars

\* A callback that returns an object, one that fails.
LiveCallbackAnswers ==
    { a \in CallbackAnswers : a.ok => a.data.constructor = "Object" }

\* The outside world answers send s at the yield it is suspended at.
Continue(s) ==
    \/ CallbackDone(s, LiveCallbackAnswers)
    \/ TextLoaded(s)
    \/ HtmlLoaded(s)
    \/ Built(s)
    \/ Sent(s)

\* The calls start from an empty cache, the template files having text.
InitLive == InitOn(1..MaxLive) /\ \A p \in Paths : files[p] # <<>>

\* Password resets for a user, whose template has a callback and both files.
NextLive ==
    \E s \in 1..MaxLive :
        \/ SendPasswordResetEmail(s, ConcurrentIdentityArguments)
        \/ Continue(s)

\* The calls whose callback, file reads, build or delivery may never complete.
MayHang == {1}

\* Every other call is answered at each yield: the event loop runs the
\* completion of a settled promise whatever other promises are pending.
SpecFair ==
    /\ InitLive /\ [][NextLive]_vars
    /\ \A s \in (1..MaxLive) \ MayHang : WF_vars(Continue(s))

(***************************************************************************)
(* Construction: new MailgunAdapter(options) on the configurations below.  *)
(***************************************************************************)
\* Templates configured at once.
MaxTemplates == 2

\* apiKey, domain, fromAddress: missing, empty, given.
SettingValues(given) == {Undefined, "", given}

WellFormedTemplate ==
    [ subject |-> Str("Reset your password"),
      pathPlainText |-> Str("password_reset_email.txt"),
      pathHtml |-> Undef,
      callback |-> Undef,
      extra |-> {} ]

\* The well-formed template, and what differs from it in one property, or
\* in its subject and its callback.
TemplateConfigs ==
    { [WellFormedTemplate EXCEPT !.subject = v] : v \in {Str("Reset your password"), Str(""), Undef, Num("1")} }
    \cup { [WellFormedTemplate EXCEPT !.pathPlainText = v] : v \in {Str(""), Undef} }
    \cup { [WellFormedTemplate EXCEPT !.pathHtml = v] : v \in {Str("password_reset_email.html")} }
    \cup { [WellFormedTemplate EXCEPT !.callback = v] : v \in {Fn, Obj, Str(""), Num("0")} }
    \cup { [WellFormedTemplate EXCEPT !.subject = Undef, !.callback = Obj] }

\* options.templates: missing, null, or an object of up to MaxTemplates templates.
TemplatesOptions ==
    { [value |-> v, entries |-> <<>>] : v \in {Undef, Null} }
    \cup { [value |-> Obj, entries |-> e] :
             e \in UNION { [1..n -> TemplateConfigs] : n \in 0..MaxTemplates } }

\* No options at all, or an options object.
Configurations ==
    { {} } \cup
    { { [apiKey |-> k, domain |-> d, fromAddress |-> f, templates |-> t] } :
        k \in SettingValues("secretApiKey"), d \in SettingValues("yourdomain.com"),
        f \in SettingValues(AdapterFromAddress), t \in TemplatesOptions }

InitConstruct ==
    /\ options \in Configurations
    /\ construction = NotConstructed
    /\ templates = [name \in {} |-> InheritedTemplate]
    /\ cache = [name \in {} |-> NoEntry]
    /\ files \in FileSystems
    /\ opts = [s \in {} |-> NoOpts]
    /\ pc = [s \in {} |-> "idle"]
    /\ templateVars = [s \in {} |-> EmptyObject]
    /\ message = [s \in {} |-> EmptyObject]
    /\ result = [s \in {} |-> NoResult]
    /\ logged = [s \in {} |-> <<>>]
    /\ trace = [s \in {} |-> <<>>]
    /\ composerCalls = [s \in {} |-> <<>>]
    /\ sendMimeCalls = [s \in {} |-> <<>>]
    /\ completions = [s \in {} |-> <<>>]
    /\ calls = [s \in {} |-> NoCall]

\* new MailgunAdapter(options), lines 22-56.
Construct ==
    /\ construction = NotConstructed
    /\ IF ConstructorThrows(options) # NoError
       THEN /\ construction' = ConstructorThrew(ConstructorThrows(options))
            /\ UNCHANGED <<templates, cache>>
       ELSE /\ construction' = Constructed
            /\ templates' = AdoptedTemplates((CHOOSE o \in options : TRUE).templates)
            /\ cache' = [name \in DOMAIN templates' \cup ObjectPrototype |-> NoEntry]
    /\ UNCHANGED <<files, opts, pc, templateVars, message, result, logged, trace,
                   composerCalls, sendMimeCalls, completions, calls, options>>

NextConstruct == Construct

SpecConstruct == InitConstruct /\ [][NextConstruct]_vars

\* The variables object the caller of a direct send passed, as it is now:
\* templateVars = variables || {} at line 84 makes no copy, so what the
\* generator assigns to templateVars at line 124 it assigns to that object.
CallerVariables(s) == templateVars[s]

(***************************************************************************)
(* Properties.                                                             *)
(***************************************************************************)
Range(seq) == { seq[i] : i \in DOMAIN seq }

Last(seq) == seq[Len(seq)]

Count(e, seq) == Cardinality({ i \in DOMAIN seq : seq[i] = e })

\* The last answer send s received was a failure.
AsyncFailure(s) == completions[s] # <<>> /\ ~Last(completions[s]).ok

FailedAt(s, stage) == AsyncFailure(s) /\ Last(completions[s]).stage = stage

\* Every answer send s received was a success, the last one being sendMime's.
Delivered(s) == completions[s] # <<>> /\ Last(completions[s]).stage = "deliver"
                    /\ Last(completions[s]).ok

\* The text a template file decodes to.
Decoded(path) == ToStringUtf8(files[path])

TemplateOf(s) == TemplateAt(opts[s].templateName)

C2_IdentityFailureIsLoggedNotThrown ==
    \A s \in Sends :
        (pc[s] # "idle" /\ ~opts[s].direct
            /\ opts[s].templateName \in DOMAIN templates /\ opts[s].user # {})
        => /\ result[s].state \in {"pending", "resolved"}
           /\ FailedAt(s, "compose") =>
                /\ result[s].state = "resolved"
                /\ Last(completions[s]).error \in Range(logged[s])

C2_Witness ==
    \E s \in Sends : ~opts[s].direct /\ FailedAt(s, "compose") /\ logged[s] # <<>>

\* C3: in direct mode with a recipient, when the MIME composer fails, the
\* composer's error is passed to console.error.
C3_DirectComposerFailureIsLogged ==
    \A s \in Sends :
        (opts[s].direct /\ Truthy(opts[s].recipient) /\ FailedAt(s, "compose"))
        => Count(Last(completions[s]).error, logged[s]) = 1

C3_Witness ==
    \E s \in Sends : opts[s].direct /\ Truthy(opts[s].recipient) /\ FailedAt(s, "compose")
                        /\ logged[s] = <<<<"Composing message failed">>>>

\* C4: when every stage of a send succeeded, its promise is resolved with the
\* body the delivery client passed to its callback.
C4_ResolvesWithResponseBody ==
    \A s \in Sends :
        Delivered(s) => result[s] = Resolved(Last(completions[s]).body)

C4_Witness ==
    \E s \in Sends : Delivered(s) /\ Last(completions[s]).body = "Queued."
                        /\ result[s].state = "resolved"

\* The stages of a send, in the order of the pipeline.
StageOrder ==
    <<"callback", "textLoad", "textRender", "htmlLoad", "htmlRender", "extras",
      "compose", "dispatch">>

Rank(stage) == CHOOSE i \in DOMAIN StageOrder : StageOrder[i] = stage

\* The stages that suspend the send until the outside world answers.
Suspending == {"callback", "textLoad", "htmlLoad", "compose"}

C6_NoRetryNoLaterStage ==
    \A s \in Sends :
        /\ Len(composerCalls[s]) <= 1
        /\ Len(sendMimeCalls[s]) <= 1
        /\ \A e \in Range(trace[s]) : Count(e, trace[s]) = 1
        /\ AsyncFailure(s) =>
              /\ pc[s] = "done"
              /\ Last(trace[s]) = IF Last(completions[s]).stage = "deliver"
                                  THEN "dispatch" ELSE Last(completions[s]).stage
              /\ Last(completions[s]).stage \in {"callback", "textLoad", "htmlLoad"}
                    => composerCalls[s] = <<>>
              /\ Last(completions[s]).stage # "deliver" => sendMimeCalls[s] = <<>>

C6_Witness ==
    \E s \in Sends : FailedAt(s, "htmlLoad") /\ composerCalls[s] = <<>>
                        /\ "textRender" \in Range(trace[s])

\* Send s starts a read of its template's file of that kind in this step.
StartsRead(s, kind) ==
    Count(IF kind = "text" THEN "textLoad" ELSE "htmlLoad", trace'[s])
        > Count(IF kind = "text" THEN "textLoad" ELSE "htmlLoad", trace[s])

\* Two sends of one template with the same variables rendered the same output.
SameOutput ==
    \A s1, s2 \in Sends :
        (opts[s1].templateName = opts[s2].templateName /\ templateVars[s1] = templateVars[s2])
        => /\ ("textRender" \in Range(trace[s1]) /\ "textRender" \in Range(trace[s2]))
                => message[s1]["text"] = message[s2]["text"]
           /\ ("htmlRender" \in Range(trace[s1]) /\ "htmlRender" \in Range(trace[s2]))
                => message[s1]["html"] = message[s2]["html"]

\* C7 as stated: a send that reaches the load step of a kind whose body the
\* cache already holds starts no file read for it, and sends of one template
\* with the same variables render the same output.
C7_CachedBodyIsNotRead ==
    [][ /\ \A s \in Sends : \A kind \in {"text", "html"} :
              (opts'[s].templateName \in DOMAIN templates
                  /\ cache[opts'[s].templateName][kind].set)
              => ~StartsRead(s, kind)
        /\ SameOutput' ]_vars

\* C8 as stated: once a field of the cache is populated it keeps its value, it
\* is not removed, and no send reads its file again.
C8_PopulatedFieldIsFinal ==
    [][ \A t \in TemplateNames : \A kind \in {"text", "html"} :
            cache[t][kind].set
            => /\ cache'[t][kind] = cache[t][kind]
               /\ \A s \in Sends : opts'[s].templateName = t => ~StartsRead(s, kind) ]_vars

\* C9: whatever the interleaving of the sends of one template, once a send has
\* rendered from a body the cache holds that body, which is the decoded
\* content of the template's file, and the send's text or html is that body
\* rendered with the send's own variables: when all sends have terminated the
\* cache is what one send after the other leaves.
C9_InterleavingsConverge ==
    \A s \in Sends :
        /\ "textRender" \in Range(trace[s]) =>
              /\ cache[opts[s].templateName].text = Body(Decoded(TemplateOf(s).pathPlainText))
              /\ message[s]["text"] =
                    MustacheRender(Decoded(TemplateOf(s).pathPlainText), templateVars[s])
        /\ "htmlRender" \in Range(trace[s]) =>
              /\ cache[opts[s].templateName].html = Body(Decoded(TemplateOf(s).pathHtml))
              /\ message[s]["html"] =
                    MustacheRender(Decoded(TemplateOf(s).pathHtml), templateVars[s])

\* Two sends of one template both read its plain-text file and both succeeded.
C9_Witness ==
    \E s1, s2 \in Sends :
        /\ s1 # s2 /\ opts[s1].templateName = opts[s2].templateName
        /\ opts[s1].variables # opts[s2].variables
        /\ "textLoad" \in Range(trace[s1]) /\ "textLoad" \in Range(trace[s2])
        /\ "htmlLoad" \in Range(trace[s1]) /\ "htmlLoad" \notin Range(trace[s2])
        /\ Delivered(s1) /\ Delivered(s2)

\* C10: a field (template name, kind) of the cache is either absent or holds
\* the whole decoded content of the template's file, also while sends are
\* suspended at a file read; a field is present only in an entry line 130
\* created, and an html field only for a template that has an html path.
C10_FieldAbsentOrComplete ==
    \A t \in TemplateNames :
        /\ \/ cache[t].text = NoBody
           \/ cache[t].text = Body(Decoded(templates[t].pathPlainText))
        /\ \/ cache[t].html = NoBody
           \/ /\ Truthy(templates[t].pathHtml)
              /\ cache[t].html = Body(Decoded(templates[t].pathHtml))
        /\ (cache[t].text.set \/ cache[t].html.set) => cache[t].created

\* One send is suspended at the html read and another at the plain-text read
\* of the same template, whose text is cached and whose html is not.
C10_Witness ==
    \E s1, s2 \in Sends :
        /\ opts[s1].templateName = opts[s2].templateName
        /\ pc[s1] = "htmlLoad" /\ pc[s2] = "textLoad"
        /\ cache[opts[s1].templateName].text.set
        /\ ~cache[opts[s1].templateName].html.set

\* C11: two sends of one template that is not cached yet can both be reading
\* its text file at the same time (C11_Witness), but no send starts the read
\* of its template's text file more than once, nor that of its html file.
C11_EachFileReadAtMostOnce ==
    \A s \in Sends :
        /\ Count("textLoad", trace[s]) <= 1
        /\ Count("htmlLoad", trace[s]) <= 1

C11_Witness ==
    \E s \in Sends : \E r \in Sends \ {s} :
        /\ opts[s].templateName = opts[r].templateName
        /\ pc[s] = "textLoad" /\ pc[r] = "textLoad"
        /\ ~cache[opts[s].templateName].text.set

\* C12 as stated: a call without templateName throws the missing-templateName
\* error; a call, direct or not, whose templateName is none of the configured
\* templates throws "Could not find template with name <templateName>",
\* whether it has a recipient or not.
C12_UnknownTemplateThrowsNotFound ==
    \A s \in Sends :
        pc[s] # "idle" =>
            /\ ~Truthy(opts[s].templateName)
                  => result[s] = Thrown(ERRORS.invalid_template_name)
            /\ Truthy(opts[s].templateName) /\ opts[s].templateName \notin DOMAIN templates
                  => result[s] = Thrown(<<"Could not find template with name ",
                                          opts[s].templateName>>)

\* C13: a direct send that names a configured template and has no recipient,
\* or the empty string as recipient, throws "Cannot send email with template
\* <templateName> without a recipient" out of the call: the caller gets no
\* promise, and no stage of the pipeline has run.
C13_DirectWithoutRecipientThrows ==
    \A s \in Sends :
        (/\ pc[s] # "idle" /\ opts[s].direct
         /\ opts[s].templateName \in DOMAIN templates
         /\ ~Truthy(opts[s].recipient))
        => /\ result[s] = Thrown(<<"Cannot send email with template ",
                                   opts[s].templateName, " without a recipient">>)
           /\ pc[s] = "done"
           /\ trace[s] = <<>> /\ completions[s] = <<>> /\ logged[s] = <<>>

C13_Witness ==
    \E s \in Sends :
        /\ calls[s].method = "send"
        /\ opts[s].templateName = "customAlert" /\ opts[s].recipient = ""
        /\ result[s].state = "thrown"

\* C14 as stated: a send without direct that names a configured template and
\* has no user fails, by an exception or a rejected promise, with an error
\* whose message names the template.
C14_IdentityWithoutUserNamesTemplate ==
    \A s \in Sends :
        (/\ pc[s] # "idle" /\ ~opts[s].direct
         /\ opts[s].templateName \in DOMAIN templates
         /\ opts[s].user = {})
        => /\ result[s].state \in {"thrown", "rejected"}
           /\ opts[s].templateName \in Range(result[s].error)

\* The callback of send s has answered with a value.
CallbackReturned(s) ==
    /\ completions[s] # <<>>
    /\ completions[s][1].stage = "callback" /\ completions[s][1].ok

\* The value is a plain key/value mapping: an object made by Object.
PlainMapping(v) == v.truthy /\ v.constructor = "Object"

\* The variables {link, appName, username, email} of a send for a user.
BaseMapping(s) ==
    [ link |-> opts[s].link, appName |-> opts[s].appName,
      username |-> UserGet(opts[s], "username"), email |-> UserGet(opts[s], "email") ]

\* C15: when the callback of a send without direct has returned a plain
\* mapping, the send's variables have the keys of the base mapping and of the
\* callback's mapping, each with the callback's value where the callback
\* has the key and the base value otherwise, and the text and the html
\* of the message are rendered with these variables.
C15_CallbackMappingOverlaysBase ==
    \A s \in Sends :
        (~opts[s].direct /\ CallbackReturned(s) /\ PlainMapping(completions[s][1].value))
        => LET m == completions[s][1].value.props
               overlaid == [k \in DOMAIN BaseMapping(s) \cup DOMAIN m |->
                               IF k \in DOMAIN m THEN m[k] ELSE BaseMapping(s)[k]]
               entry == cache[opts[s].templateName]
           IN  /\ templateVars[s] = overlaid
               /\ "textRender" \in Range(trace[s])
                     => message[s].text = MustacheRender(entry.text.body, overlaid)
               /\ "htmlRender" \in Range(trace[s])
                     => message[s].html = MustacheRender(entry.html.body, overlaid)

C15_Witness ==
    \E s \in Sends :
        /\ calls[s].method = "sendPasswordResetEmail"
        /\ CallbackReturned(s) /\ PlainMapping(completions[s][1].value)
        /\ "htmlRender" \in Range(trace[s])
        /\ message[s].text = <<"Hello ", "zed">>
        /\ message[s].html[2] = "X"
        /\ templateVars[s].link = "https://foo.com" /\ templateVars[s].firstName = "Al"

\* C16: when the callback of a send has returned a value that is no plain
\* mapping (a string, an array, a number, null, undefined), the send's
\* variables are the ones it had before the callback, the generator goes on
\* with the text stage, and if every later answer is a success the message
\* is composed and dispatched and the promise resolves with the response.
C16_NonMappingIsDiscarded ==
    \A s \in Sends :
        (CallbackReturned(s) /\ ~PlainMapping(completions[s][1].value))
        => /\ templateVars[s] = InitialTemplateVars(opts[s])
           /\ Len(trace[s]) >= 2 /\ trace[s][2] \in {"textLoad", "textRender"}
           /\ (pc[s] = "done" /\ \A i \in DOMAIN completions[s] : completions[s][i].ok)
                 => /\ "compose" \in Range(trace[s]) /\ "dispatch" \in Range(trace[s])
                    /\ result[s] = Resolved(Last(completions[s]).body)
                    /\ logged[s] = <<>>

C16_Witness ==
    \E s \in Sends :
        /\ CallbackReturned(s) /\ completions[s][1].value.constructor = "String"
        /\ ~opts[s].direct
        /\ Delivered(s)
        /\ templateVars[s] = BaseMapping(s)

\* C17 as stated: in a send with direct the callback of the template is never
\* invoked, whether the template has one or not, and the variables are the
\* variables the caller gave, or the empty mapping when it gave none.
C17_DirectNeverInvokesCallback ==
    \A s \in Sends :
        (opts[s].direct /\ result[s].state \in {"pending", "resolved", "rejected"})
        => /\ "callback" \notin Range(trace[s])
           /\ templateVars[s] = OrEmpty(opts[s].variables)

\* The options of a call have, apart from templateName and direct, exactly
\* the fields given, each with the value the caller passed.
PassedThrough(s, fields) ==
    \A f \in DOMAIN NoOpts \ {"templateName", "direct"} :
        opts[s][f] = IF f \in fields THEN calls[s].arguments[f] ELSE NoOpts[f]

\* C18: sendPasswordResetEmail runs _sendMail with templateName
\* "passwordResetEmail" and without direct, sendVerificationEmail with
\* "verificationEmail" and without direct, send with the caller's templateName
\* and direct; link, appName and user, respectively subject, fromAddress,
\* recipient, variables and extra, are the caller's; and the call gives its
\* caller a promise, pending or resolved, whenever _sendMail does not throw.
C18_EntryPointsBuildTheRequest ==
    \A s \in Sends :
        /\ calls[s].method = "sendPasswordResetEmail"
              => /\ opts[s].templateName = "passwordResetEmail" /\ ~opts[s].direct
                 /\ PassedThrough(s, {"link", "appName", "user"})
        /\ calls[s].method = "sendVerificationEmail"
              => /\ opts[s].templateName = "verificationEmail" /\ ~opts[s].direct
                 /\ PassedThrough(s, {"link", "appName", "user"})
        /\ calls[s].method = "send"
              => /\ opts[s].templateName = calls[s].arguments.templateName
                 /\ opts[s].direct
                 /\ PassedThrough(s, {"subject", "fromAddress", "recipient",
                                      "variables", "extra"})
        /\ calls[s].method \in {"sendPasswordResetEmail", "sendVerificationEmail", "send"}
              => /\ pc[s] # "idle"
                 /\ result[s].state \in
                       IF SendMailThrows(opts[s]) = NoError
                       THEN {"pending", "resolved"} ELSE {"thrown"}

C18_Witness ==
    \E s \in Sends :
        /\ calls[s].method = "sendVerificationEmail"
        /\ calls[s].arguments.user = {Alice}
        /\ opts[s].templateName = "verificationEmail"
        /\ result[s].state = "pending" /\ pc[s] = "textLoad"

\* C19 as stated: the message a send without direct hands to the composer
\* has the user's email as to, the adapter's fromAddress as from, the
\* template's subject as subject, and as text the template's text rendered
\* with the base variables {link, appName, username, email}.
C19_IdentityMessageFromBaseVariables ==
    \A s \in Sends :
        (~opts[s].direct /\ composerCalls[s] # <<>>)
        => LET m == composerCalls[s][1] IN
           /\ m.to = UserGet(opts[s], "email")
           /\ m.from = AdapterFromAddress
           /\ m.subject = TemplateOf(s).subject
           /\ m.text = MustacheRender(Decoded(TemplateOf(s).pathPlainText), BaseMapping(s))

\* The variables a send without direct renders with: the base variables,
\* under the mapping its template's callback returned, if any.
IdentityVariables(s) ==
    IF CallbackReturned(s) /\ PlainMapping(completions[s][1].value)
    THEN [k \in DOMAIN BaseMapping(s) \cup DOMAIN completions[s][1].value.props |->
             IF k \in DOMAIN completions[s][1].value.props
             THEN completions[s][1].value.props[k] ELSE BaseMapping(s)[k]]
    ELSE BaseMapping(s)

\* C19, amended: the message a send without direct hands to the composer has
\* the user's email as to, the adapter's fromAddress as from, the template's
\* subject as subject, and as text the template's text rendered with the base
\* variables overlaid with the mapping the template's callback returned, which
\* are the base variables when the template has no callback or the callback
\* returned no plain mapping.
C19_IdentityMessageFromSendVariables ==
    \A s \in Sends :
        (~opts[s].direct /\ composerCalls[s] # <<>>)
        => LET m == composerCalls[s][1] IN
           /\ m.to = UserGet(opts[s], "email")
           /\ m.from = AdapterFromAddress
           /\ m.subject = TemplateOf(s).subject
           /\ m.text = MustacheRender(Decoded(TemplateOf(s).pathPlainText),
                                      IdentityVariables(s))

C19_Witness ==
    \E s \in Sends :
        /\ calls[s].method = "sendPasswordResetEmail"
        /\ CallbackReturned(s) /\ PlainMapping(completions[s][1].value)
        /\ composerCalls[s] # <<>>
        /\ composerCalls[s][1].to = "a@b.com"
        /\ composerCalls[s][1].from = AdapterFromAddress
        /\ composerCalls[s][1].subject = "Reset your password"
        /\ composerCalls[s][1].text = <<"Hello ", "zed">>

\* C20: the message of a send with direct, from the call on and as handed to
\* the composer, has the caller's recipient as to; as from the caller's
\* fromAddress when it gave one and the adapter's otherwise; as subject the
\* caller's subject when it gave one and the template's otherwise.
C20_DirectMessageFields ==
    \A s \in Sends :
        (opts[s].direct /\ result[s].state \in {"pending", "resolved"})
        => LET expected ==
                 [ to |-> opts[s].recipient,
                   from |-> IF opts[s].fromAddress # Undefined /\ opts[s].fromAddress # ""
                            THEN opts[s].fromAddress ELSE AdapterFromAddress,
                   subject |-> IF opts[s].subject # Undefined /\ opts[s].subject # ""
                               THEN opts[s].subject ELSE TemplateOf(s).subject ]
           IN  \A f \in DOMAIN expected :
                  /\ message[s][f] = expected[f]
                  /\ \A i \in DOMAIN composerCalls[s] : composerCalls[s][i][f] = expected[f]

C20_Witness ==
    \E s \in Sends :
        /\ calls[s].method = "send" /\ opts[s].templateName = "customAlert"
        /\ composerCalls[s] # <<>>
        /\ composerCalls[s][1].to = "user@email.com"
        /\ composerCalls[s][1].from = "Alerts <noreply@yourapp.com>"
        /\ composerCalls[s][1].subject = "Important: action required"

\* C21 as stated: the message handed to the composer has every field of the
\* template's extra and, in a send with direct, every field of the caller's
\* extra; a field both define has the caller's value.
C21_RequestExtraWins ==
    \A s \in Sends : \A i \in DOMAIN composerCalls[s] :
        LET m == composerCalls[s][i]
            fromTemplate == OrEmpty(TemplateOf(s).extra)
            fromRequest == IF opts[s].direct THEN OrEmpty(opts[s].extra) ELSE EmptyObject
        IN  /\ DOMAIN fromTemplate \cup DOMAIN fromRequest \subseteq DOMAIN m
            /\ \A k \in DOMAIN fromRequest : m[k] = fromRequest[k]
            /\ \A k \in DOMAIN fromTemplate \ DOMAIN fromRequest : m[k] = fromTemplate[k]

\* C22: every message handed to the composer has a text, the rendering of the
\* template's text; it has an html exactly when the template has a pathHtml;
\* and a send whose template has no pathHtml never starts an html read.
C22_TextAlwaysHtmlIfDeclared ==
    \A s \in Sends :
        /\ \A i \in DOMAIN composerCalls[s] :
              /\ "text" \in DOMAIN composerCalls[s][i]
              /\ composerCalls[s][i].text =
                    MustacheRender(Decoded(TemplateOf(s).pathPlainText), templateVars[s])
              /\ "html" \in DOMAIN composerCalls[s][i] <=> Truthy(TemplateOf(s).pathHtml)
        /\ (pc[s] # "idle" /\ Found(opts[s].templateName) /\ ~Truthy(TemplateOf(s).pathHtml))
              => /\ "htmlLoad" \notin Range(trace[s])
                 /\ \A i \in DOMAIN completions[s] : completions[s][i].stage # "htmlLoad"

C22_Witness ==
    \E s \in Sends :
        /\ opts[s].templateName = "verificationEmail"
        /\ composerCalls[s] # <<>>
        /\ DOMAIN composerCalls[s][1] = {"from", "to", "subject", "text"}
        /\ Delivered(s)

\* C23: every payload handed to sendMime has as to the recipient of its send,
\* the caller's recipient in a send with direct and the user's email
\* otherwise, and as message the MIME document built from the one message
\* that send handed to the composer.
C23_PayloadIsOfItsSend ==
    \A s \in Sends : \A i \in DOMAIN sendMimeCalls[s] :
        /\ sendMimeCalls[s][i].to = IF opts[s].direct THEN opts[s].recipient
                                    ELSE UserGet(opts[s], "email")
        /\ Len(composerCalls[s]) = 1
        /\ sendMimeCalls[s][i].message = MimeOf(composerCalls[s][1])

C23_Witness ==
    \E s \in Sends : \E r \in Sends \ {s} :
        /\ sendMimeCalls[s] # <<>> /\ sendMimeCalls[r] # <<>>
        /\ sendMimeCalls[s][1].to = "user@email.com"
        /\ sendMimeCalls[r][1].to = "a@b.com"
        /\ pc[s] = "deliver" /\ pc[r] = "deliver"

\* The variables of send s as its own request and its own callback's answer
\* determine them.
OwnVariables(s) ==
    Only({ IF CallbackReturned(s) /\ PlainMapping(completions[s][1].value)
           THEN Only({ [k \in DOMAIN base \cup DOMAIN returned |->
                          IF k \in DOMAIN returned THEN returned[k] ELSE base[k]]
                       : returned \in {completions[s][1].value.props} })
           ELSE base
           : base \in {InitialTemplateVars(opts[s])} })

\* The message of send s as its own request, its template and the template's
\* files determine it.
OwnMessage(s) ==
    Only({ ObjectAssign(ObjectAssign(InitialMessage(opts[s]), rendered),
                        OrEmpty(TemplateOf(s).extra)) :
           rendered \in
             { IF Truthy(TemplateOf(s).pathHtml)
               THEN [ text |-> MustacheRender(Decoded(TemplateOf(s).pathPlainText), own),
                      html |-> MustacheRender(Decoded(TemplateOf(s).pathHtml), own) ]
               ELSE [ text |-> MustacheRender(Decoded(TemplateOf(s).pathPlainText), own) ]
               : own \in {OwnVariables(s)} } })

\* C24: whatever other sends are in flight, the message a send hands to the
\* composer and the payload it hands to sendMime are determined by the send's
\* own request, its own callback's answer, its template and the content of
\* the template's files: nothing of another send's variables, recipient or
\* extra is in them.
C24_OutputDependsOnOwnRequest ==
    \A s \in Sends :
        (composerCalls[s] # <<>> \/ sendMimeCalls[s] # <<>>) =>
            \A own \in {OwnMessage(s)} :
                /\ \A i \in DOMAIN composerCalls[s] : composerCalls[s][i] = own
                /\ \A i \in DOMAIN sendMimeCalls[s] :
                      sendMimeCalls[s][i] = [to |-> own.to, message |-> MimeOf(own)]

C24_Witness ==
    \E s \in Sends : \E r \in Sends \ {s} :
        /\ opts[s].templateName = "customAlert" /\ opts[r].templateName = "customAlert"
        /\ sendMimeCalls[s] # <<>> /\ sendMimeCalls[r] # <<>>
        /\ pc[s] = "deliver" /\ pc[r] = "deliver"
        /\ composerCalls[s][1].text = <<"Hello ", "bob">>
        /\ composerCalls[r][1].text = <<"Hello ", "">>
        /\ "cc" \in DOMAIN composerCalls[s][1] /\ "cc" \notin DOMAIN composerCalls[r][1]

\* C25: a send whose callback, file reads, build and delivery are all answered
\* reaches its end, delivered or failed, and does so also when another send,
\* started before it, is never answered and stays suspended.
C25_AnsweredSendTerminates ==
    \A s \in (1..MaxLive) \ MayHang :
        (pc[s] \notin {"idle", "done"}) ~> (pc[s] = "done")

C25_Witness ==
    \E h \in MayHang : \E s \in (1..MaxLive) \ MayHang :
        /\ pc[h] = "textLoad" /\ Len(completions[h]) = 1
        /\ opts[h].templateName = opts[s].templateName
        /\ pc[s] = "done" /\ Delivered(s)

\* The setting is not given, or is the empty string.
Lacking(setting) == setting \in {Undefined, ""}

\* The options given have all of apiKey, domain and fromAddress.
SettingsGiven(o) == ~Lacking(o.apiKey) /\ ~Lacking(o.domain) /\ ~Lacking(o.fromAddress)

\* C26: once the constructor has run, it has thrown the missing-configuration
\* error if it was given no options, and the settings error if the options
\* lack apiKey, domain or fromAddress, whatever their templates are.
C26_MissingConfigurationOrSettings ==
    construction # NotConstructed =>
        /\ options = {} => construction = ConstructorThrew(ERRORS.missing_configuration)
        /\ \A o \in options :
              ~SettingsGiven(o) => construction = ConstructorThrew(ERRORS.missing_mailgun_settings)

C26_Witness ==
    /\ construction = ConstructorThrew(ERRORS.missing_mailgun_settings)
    /\ \E o \in options :
          /\ ~Lacking(o.apiKey) /\ o.domain = Undefined /\ ~Lacking(o.fromAddress)
          /\ o.templates.value = Obj /\ Len(o.templates.entries) = 1
          /\ o.templates.entries[1].subject = Undef

\* A template whose subject or plain-text path is not a string.
NotStrings(template) ==
    template.subject.typeof # "string" \/ template.pathPlainText.typeof # "string"

\* A template with a string subject and plain-text path, with or without an
\* html path, with a callback function or none.
WellFormed(template) ==
    /\ ~NotStrings(template)
    /\ template.pathHtml = Undef \/ template.pathHtml.typeof = "string"
    /\ template.callback = Undef \/ template.callback.typeof = "function"

\* C27: with apiKey, domain and fromAddress given, the constructor throws a
\* template-configuration error when templates is missing, is empty, or has a
\* template whose subject or plain-text path is not a string: the error is
\* bad_template_config, unless an earlier template has a callback that is no
\* function.  When every template is well formed it returns, and the cache
\* holds nothing.
C27_TemplatesCheckedAtConstruction ==
    construction # NotConstructed =>
        \A o \in options : SettingsGiven(o) =>
            LET t == o.templates IN
            /\ (t.value # Obj \/ t.entries = <<>> \/ \E i \in DOMAIN t.entries : NotStrings(t.entries[i]))
                 => /\ construction.state = "thrown"
                    /\ construction.error \in {ERRORS.bad_template_config, ERRORS.invalid_callback}
                    /\ (\A i \in DOMAIN t.entries : t.entries[i].callback \in {Undef, Fn, Str(""), Num("0")})
                          => construction.error = ERRORS.bad_template_config
            /\ (t.value = Obj /\ t.entries # <<>> /\ \A i \in DOMAIN t.entries : WellFormed(t.entries[i]))
                 => /\ construction = Constructed
                    /\ Len(t.entries) = Cardinality(DOMAIN templates)
                    /\ \A name \in DOMAIN cache : cache[name] = NoEntry

C27_Witness ==
    /\ construction = Constructed
    /\ \E o \in options :
          /\ Len(o.templates.entries) = 2
          /\ o.templates.entries[1].callback = Fn
          /\ o.templates.entries[2].pathHtml # Undef
    /\ Cardinality(DOMAIN templates) = 2
    /\ \A name \in DOMAIN cache : cache[name] = NoEntry

\* C28: the constructor throws when a template has an empty subject or an
\* empty plain-text path, and the templates of a constructed adapter have a
\* subject and a plain-text path that are not empty.
C28_EmptySubjectOrPathFails ==
    construction # NotConstructed =>
        /\ \A o \in options :
              (\E i \in DOMAIN o.templates.entries :
                    \/ o.templates.entries[i].subject = Str("")
                    \/ o.templates.entries[i].pathPlainText = Str(""))
                 => construction.state = "thrown"
        /\ construction = Constructed =>
              \A name \in DOMAIN templates :
                  templates[name].subject # "" /\ templates[name].pathPlainText # ""

\* C29: the constructor throws when a template has a callback that is given
\* and is no function, the empty string and 0 included.
C29_NonFunctionCallbackFails ==
    construction # NotConstructed =>
        \A o \in options :
            (\E i \in DOMAIN o.templates.entries :
                  /\ o.templates.entries[i].callback # Undef
                  /\ o.templates.entries[i].callback.typeof # "function")
               => construction.state = "thrown"

\* The step is one of send s: its call, or one of its continuations.
StepOf(s) == calls'[s] # calls[s] \/ Len(completions'[s]) > Len(completions[s])

\* C30: no step of a send changes this.templates or what the adapter was
\* constructed with, and a step of a send for a template changes no cache
\* entry but that template's.
C30_SendChangesOnlyItsCacheEntry ==
    [][ /\ templates' = templates
        /\ options' = options
        /\ construction' = construction
        /\ DOMAIN cache' = DOMAIN cache
        /\ \A s \in Sends : StepOf(s) =>
              \A name \in DOMAIN cache \ {opts'[s].templateName} : cache'[name] = cache[name]
      ]_vars

C30_Witness ==
    \E s \in Sends : \E r \in Sends \ {s} :
        /\ opts[s].templateName = "passwordResetEmail"
        /\ opts[r].templateName = "verificationEmail"
        /\ Cached(cache["passwordResetEmail"].text) /\ Cached(cache["passwordResetEmail"].html)
        /\ Cached(cache["verificationEmail"].text)
        /\ cache["customAlert"] = NoEntry

\* The call of send s throws in this step.
Throws(s) == result[s].state # "thrown" /\ result'[s].state = "thrown"

\* C31: a call that throws leaves the cache as it was, and the send has
\* invoked no callback, read no file, composed and delivered nothing, logged
\* nothing and is over.
C31_ThrowingCallHasNoEffect ==
    [][ \A s \in Sends :
          /\ Throws(s) => cache' = cache /\ templates' = templates
          /\ result'[s].state = "thrown" =>
                /\ pc'[s] = "done"
                /\ trace'[s] = <<>>
                /\ completions'[s] = <<>>
                /\ composerCalls'[s] = <<>>
                /\ sendMimeCalls'[s] = <<>>
                /\ logged'[s] = <<>>
      ]_vars

C31_Witness ==
    \E s \in Sends :
        /\ opts[s].direct /\ opts[s].templateName = "customAlert" /\ ~Truthy(opts[s].recipient)
        /\ result[s].state = "thrown"
        /\ cache["customAlert"] = NoEntry

\* The read send s was waiting for fails in this step.
FailsRead(s, stage) ==
    /\ pc[s] = stage
    /\ Len(completions'[s]) = Len(completions[s]) + 1
    /\ ~Last(completions'[s]).ok

\* Send s comes to the test of the cached text (line 133) or of the cached
\* html (line 144) in this step.
ComesTo(s, kind) ==
    IF kind = "text"
    THEN /\ pc[s] # "textLoad"
         /\ Count("textLoad", trace'[s]) + Count("textRender", trace'[s])
               > Count("textLoad", trace[s]) + Count("textRender", trace[s])
    ELSE /\ pc[s] # "htmlLoad"
         /\ Count("htmlLoad", trace'[s]) + Count("htmlRender", trace'[s])
               > Count("htmlLoad", trace[s]) + Count("htmlRender", trace[s])

\* C32: the step in which a read of a template file fails ends the send and
\* changes nothing in the cache, so that a missing body stays missing and,
\* when the html read fails, the text body stays; and a send that comes to a
\* body the cache does not hold reads its file.
C32_FailedReadLeavesCache ==
    [][ \A s \in Sends :
          /\ FailsRead(s, "textLoad") =>
                /\ cache' = cache
                /\ pc'[s] = "done"
          /\ FailsRead(s, "htmlLoad") =>
                /\ cache' = cache
                /\ cache'[opts[s].templateName].text.set
                /\ pc'[s] = "done"
          /\ \A kind \in {"text", "html"} :
                (ComesTo(s, kind) /\ ~cache[opts'[s].templateName][kind].set)
                   => StartsRead(s, kind)
      ]_vars

C32_Witness ==
    \E h \in Sends : \E r \in Sends \ {h} :
        /\ opts[h].templateName = opts[r].templateName
        /\ FailedAt(h, "htmlLoad") /\ pc[h] = "done"
        /\ cache[opts[h].templateName].text.set
        /\ ~cache[opts[h].templateName].html.set
        /\ "textLoad" \notin Range(trace[r])
        /\ "textRender" \in Range(trace[r])
        /\ pc[r] = "htmlLoad"

\* The callback of send s throws, or the promise it returned rejects, in this step.
CallbackFails(s) ==
    /\ pc[s] = "callback"
    /\ Len(completions'[s]) = Len(completions[s]) + 1
    /\ ~Last(completions'[s]).ok

\* C33: the call that invokes the callback and the step in which the callback
\* fails both leave the cache as it was; the failure ends the send, which has
\* read no file, composed and delivered nothing, and whose error was caught
\* and logged: the call did not throw, and its promise is resolved.
C33_FailedCallbackEndsSend ==
    [][ \A s \in Sends :
          /\ (StepOf(s) /\ pc'[s] = "callback") => cache' = cache
          /\ CallbackFails(s) =>
                /\ cache' = cache
                /\ pc'[s] = "done"
                /\ trace'[s] = <<"callback">>
                /\ composerCalls'[s] = <<>>
                /\ sendMimeCalls'[s] = <<>>
                /\ logged'[s] = <<Last(completions'[s]).error>>
                /\ result'[s] = Resolved(Undefined)
      ]_vars

C33_Witness ==
    \E s \in Sends :
        /\ FailedAt(s, "callback") /\ pc[s] = "done"
        /\ cache[opts[s].templateName] = NoEntry
        /\ logged[s] = <<<<"callback failed">>>>
        /\ result[s].state = "resolved"

\* C34: the variables object a direct send was called with holds, whatever
\* the send has done, the keys and values it was passed with.
C34_CallerVariablesUnchanged ==
    \A s \in Sends :
        (opts[s].direct /\ opts[s].variables # {} /\ pc[s] # "idle" /\ result[s].state # "thrown")
        => CallerVariables(s) = OrEmpty(opts[s].variables)

\* The file of that kind of the template of send s, decoded.
FileOf(s, kind) ==
    Decoded(IF kind = "text" THEN templates[opts'[s].templateName].pathPlainText
                             ELSE templates[opts'[s].templateName].pathHtml)

\* C35: a send that comes to a body of its template reads the file unless the
\* cache holds a body that is not empty: when the file is empty it always
\* reads it, when the file is not empty it reads it exactly when the cache
\* holds no body yet.
C35_EmptyBodyCountsAsMissing ==
    [][ \A s \in Sends : \A kind \in {"text", "html"} :
          ComesTo(s, kind) =>
              /\ StartsRead(s, kind) <=>
                    ~(cache[opts'[s].templateName][kind].set
                        /\ cache[opts'[s].templateName][kind].body # <<>>)
              /\ FileOf(s, kind) = <<>> => StartsRead(s, kind)
              /\ FileOf(s, kind) # <<>> =>
                    (StartsRead(s, kind) <=> ~cache[opts'[s].templateName][kind].set)
      ]_vars

C35_Witness ==
    \E s \in Sends : \E r \in Sends \ {s} :
        /\ pc[s] = "done" /\ pc[r] = "compose"
        /\ opts[s].templateName = opts[r].templateName
        /\ files[templates[opts[s].templateName].pathPlainText] = <<>>
        /\ Delivered(s)
        /\ cache[opts[s].templateName].text = Body(<<>>)
        /\ Cached(cache[opts[s].templateName].html)
        /\ trace[r] = <<"textLoad", "textRender", "htmlRender", "extras", "compose">>

====
